---- MODULE Spec2Model ----
(***************************************************************************)
(* pg2avro: column metadata -> Avro record schema, rows -> Avro row dicts  *)
(* (src/pg2avro/pg2avro.py).                                                *)
(*                                                                         *)
(* Python values are tagged records, so that values of different Python    *)
(* types can be compared:                                                  *)
(*   None            [tag |-> "NoneType"]                                  *)
(*   True / False    [tag |-> "bool", b |-> ...]                           *)
(*   an int          [tag |-> "int", i |-> ...]                            *)
(*   a str           [tag |-> "str", lead, caps, word]: `lead` leading     *)
(*                   underscores, then `word` (lower-case, not starting    *)
(*                   with an underscore), upper-cased when `caps`          *)
(*   a dict          [tag |-> "dict", items |-> key :> value @@ ...]       *)
(*   a list / tuple  [tag |-> "list" / "tuple", elems |-> <<...>>]         *)
(*   an object       [tag |-> "object", cls, id, attrs]: `id` is the       *)
(*                   object's identity (0: created inside the library,     *)
(*                   i > 0: the caller's i-th column object)               *)
(* A call that may raise returns Ok(value) or Raise(exception, message).   *)
(***************************************************************************)
EXTENDS Integers, Sequences, FiniteSets, TLC

VARIABLES
    columns,         \* the caller's column descriptions (objects live here)
    column_mapping,  \* the caller's ColumnMapping object, or None
    called,          \* the last call and its arguments, as they were passed
    returned,        \* what the last call returned or raised
    ncalls           \* number of get_avro_schema calls made so far

vars == <<columns, column_mapping, called, returned, ncalls>>

\* ------------------------------------------------------------ bounds
MaxCols == 2     \* longest column list passed to get_avro_schema
MaxLead == 1     \* most leading underscores of a type name
MaxCalls == 2    \* get_avro_schema calls on the same column objects

\* ----------------------------------------------------- Python values
PyNone == [tag |-> "NoneType"]
PyBool(b) == [tag |-> "bool", b |-> b]
PyInt(i) == [tag |-> "int", i |-> i]
Str(lead, caps, word) == [tag |-> "str", lead |-> lead, caps |-> caps, word |-> word]
S(word) == Str(0, FALSE, word)
Dict(items) == [tag |-> "dict", items |-> items]
List(elems) == [tag |-> "list", elems |-> elems]
Tuple(elems) == [tag |-> "tuple", elems |-> elems]
Object(cls, id, attrs) == [tag |-> "object", cls |-> cls, id |-> id, attrs |-> attrs]

Ok(v) == [ok |-> TRUE, val |-> v]
Raise(exc, msg) == [ok |-> FALSE, exc |-> exc, msg |-> msg]

\* bool(v): Python truthiness of the values the columns carry.
Truthy(v) ==
    CASE v.tag = "NoneType" -> FALSE
      [] v.tag = "bool" -> v.b
      [] v.tag = "int" -> v.i # 0
      [] v.tag = "str" -> v.lead > 0 \/ v.word # ""
      [] v.tag = "dict" -> DOMAIN v.items # {}
      [] v.tag \in {"list", "tuple"} -> v.elems # <<>>
      [] OTHER -> TRUE

\* a or b
PyOr(a, b) == IF Truthy(a) THEN a ELSE b

\* str.lower()
lower(s) == [s EXCEPT !.caps = FALSE]

\* str.startswith("_")
startswith_underscore(s) == s.lead > 0

\* s[1:] of a string that starts with an underscore
from_1(s) == [s EXCEPT !.lead = @ - 1]

\* f"_{s}"
underscore_prefixed(s) == [s EXCEPT !.lead = @ + 1]

\* The text of a str as a table key: only a lower-case string without
\* leading underscore can equal a key of the tables below.
IsKey(s, M) == s.tag = "str" /\ s.lead = 0 /\ ~s.caps /\ s.word \in DOMAIN M

\* M.get(s, None)
MapGet(M, s) == IF IsKey(s, M) THEN S(M[s.word]) ELSE PyNone

\* dict.get(key, default)
DictGet(d, key, default) == IF key \in DOMAIN d.items THEN d.items[key] ELSE default

\* hasattr / getattr. A ColumnAdapter falls back to the wrapped object
\* (__getattr__) for what its own __dict__ lacks.
HasAttr(o, a) ==
    \/ a \in DOMAIN o.attrs
    \/ o.cls = "ColumnAdapter" /\ a \in DOMAIN o.attrs.obj.attrs

GetAttr(o, a) ==
    IF a \in DOMAIN o.attrs THEN Ok(o.attrs[a])
    ELSE IF o.cls = "ColumnAdapter" /\ a \in DOMAIN o.attrs.obj.attrs
         THEN Ok(o.attrs.obj.attrs[a])
    ELSE Raise("AttributeError", a)

\* getattr(o, a, default)
GetAttrOr(o, a, default) == IF HasAttr(o, a) THEN GetAttr(o, a).val ELSE default

\* setattr(o, a, v)
SetAttr(o, a, v) == [o EXCEPT !.attrs = (a :> v) @@ @]

Range(seq) == {seq[i] : i \in DOMAIN seq}

\* ------------------------------------------------------------ tables
AVRO_POSTGRES_MAP ==
    [boolean |-> <<"bool", "boolean">>,
     string |-> <<"char", "character", "bpchar", "enum", "json", "jsonb",
                  "inet", "text", "uuid", "varchar", "character varying",
                  "interval">>,
     int |-> <<"smallint", "integer", "int", "int2", "int4", "date", "time">>,
     long |-> <<"bigint", "int8", "timestamp", "timestamptz",
                "timestamp without time zone", "timestamp with time zone">>,
     float |-> <<"real", "float4">>,
     double |-> <<"float8", "double precision", "double_precision">>,
     array |-> <<"array", "daterange", "int4range", "int2vector">>,
     bytes |-> <<"numeric">>]

LOGICAL_TYPES_AVRO_MAP ==
    ("timestamp-millis" :> <<"time", "timestamp", "timestamptz",
                             "timestamp without time zone",
                             "timestamp with time zone">>)
    @@ [date |-> <<"date">>, decimal |-> <<"numeric">>]

REQUIRED_COLUMN_ATTRIBUTES == <<"name", "type">>

BUILTIN_TYPES == {"tuple", "list", "set", "int", "float", "str", "dict"}

\* {postgres_type: avro_type for avro_type, postgres_types in M.items()
\*                           for postgres_type in postgres_types}
\* No postgres type is listed under two keys, so the flipped entry is unique.
Flip(M) ==
    [pg \in UNION {Range(M[a]) : a \in DOMAIN M} |->
        CHOOSE a \in DOMAIN M : pg \in Range(M[a])]

TYPE_MAP_date_as_long == [Flip(AVRO_POSTGRES_MAP) EXCEPT !["date"] = "long"]

TYPE_MAP == Flip(AVRO_POSTGRES_MAP)

LOGICAL_TYPES_MAP_time_as_date == [Flip(LOGICAL_TYPES_AVRO_MAP) EXCEPT !["time"] = "date"]

LOGICAL_TYPES_MAP == Flip(LOGICAL_TYPES_AVRO_MAP)

\* ----------------------------------------------------------- classes
COLUMN_ATTRIBUTES ==
    REQUIRED_COLUMN_ATTRIBUTES \o <<"nullable", "numeric_precision", "numeric_scale">>

\* ColumnMapping(**kwargs): __init__ has five parameters and no defaults, so
\* every one of the five key names must be given. The attributes hold the
\* caller's key (or attribute) names.
ColumnMapping(kwargs) ==
    IF DOMAIN kwargs = Range(COLUMN_ATTRIBUTES)
    THEN Ok(Object("ColumnMapping", 0, kwargs))
    ELSE Raise("TypeError", "__init__() missing required positional arguments")

\* ColumnAdapter(obj, **adapted_methods)
ColumnAdapter(obj, adapted_methods) ==
    Object("ColumnAdapter", 0, adapted_methods @@ [obj |-> obj])

Column(name, type, nullable, numeric_precision, numeric_scale) ==
    Object("Column", 0,
           [name |-> name, type |-> type, nullable |-> nullable,
            numeric_scale |-> numeric_scale,
            numeric_precision |-> numeric_precision])

\* -------------------------------------------------- column conversion
AssumingCompatible == "Assuming pg2avro compatible column interface"

\* attributes: the names present (dict keys, or the keys of __dict__).
_check_required_attributes(attributes) ==
    IF ~(Range(REQUIRED_COLUMN_ATTRIBUTES) \subseteq attributes)
    THEN Raise("Exception", AssumingCompatible)
    ELSE Ok(PyNone)

_dict_to_column(column, mapping) ==
    IF Truthy(mapping)
    THEN Ok(Column(DictGet(column, mapping.attrs.name, PyNone),
                   DictGet(column, mapping.attrs.type, PyNone),
                   DictGet(column, mapping.attrs.nullable, PyBool(TRUE)),
                   DictGet(column, mapping.attrs.numeric_precision, PyNone),
                   DictGet(column, mapping.attrs.numeric_scale, PyNone)))
    ELSE LET checked == _check_required_attributes(DOMAIN column.items)
         IN  IF ~checked.ok THEN checked
             ELSE Ok(Column(DictGet(column, "name", PyNone),
                            DictGet(column, "type", PyNone),
                            DictGet(column, "nullable", PyBool(TRUE)),
                            DictGet(column, "numeric_precision", PyNone),
                            DictGet(column, "numeric_scale", PyNone)))

\* A SQLAlchemy type object carries __visit_name__, the arguments it was
\* built with (args) and, for ARRAY, its item_type. str(type) renders the
\* item type's name followed by its arguments ("NUMERIC(10, 2)", and
\* "NUMERIC(10, 2)[]" for an array of it): type_str_base is the type whose
\* name and arguments appear in that text.
type_str_base(type) ==
    IF "item_type" \in DOMAIN type.attrs THEN type.attrs.item_type ELSE type

\* "numeric" in type_str.lower(): of the type names modelled, only
\* NUMERIC / Numeric render a text that contains "numeric".
numeric_in_type_str(type) ==
    type_str_base(type).attrs["__visit_name__"].word = "numeric"

\* re.findall(r"\d+", type_str), each group read by int()
num_def(type) == type_str_base(type).attrs.args

sqlalchemy_numeric(type) ==
    IF numeric_in_type_str(type)
    THEN [numeric_precision |->
              IF Len(num_def(type)) > 0 THEN PyInt(num_def(type)[1]) ELSE PyNone,
          numeric_scale |->
              IF Len(num_def(type)) > 1 THEN PyInt(num_def(type)[2]) ELSE PyNone]
    ELSE [numeric_precision |-> PyNone, numeric_scale |-> PyNone]

sqlalchemy_type_name(type) ==
    IF type.attrs["__visit_name__"] = Str(0, TRUE, "array")
    THEN underscore_prefixed(type.attrs.item_type.attrs["__visit_name__"])
    ELSE type.attrs["__visit_name__"]

_object_to_column(column, mapping) ==
    IF Truthy(mapping)
    THEN LET name == GetAttr(column, mapping.attrs.name)
             type == GetAttr(column, mapping.attrs.type)
         IN  IF ~name.ok THEN name
             ELSE IF ~type.ok THEN type
             ELSE Ok(ColumnAdapter(column,
                     [name |-> name.val,
                      type |-> type.val,
                      nullable |-> GetAttrOr(column, mapping.attrs.nullable, PyBool(TRUE)),
                      numeric_precision |->
                          GetAttrOr(column, mapping.attrs.numeric_precision, PyNone),
                      numeric_scale |->
                          GetAttrOr(column, mapping.attrs.numeric_scale, PyNone)]))
    ELSE IF column.cls = "SqlAlchemyColumn"
    THEN Ok(ColumnAdapter(column,
            [name |-> column.attrs.name,
             type |-> sqlalchemy_type_name(column.attrs.type),
             nullable |-> column.attrs.nullable,
             numeric_precision |-> sqlalchemy_numeric(column.attrs.type).numeric_precision,
             numeric_scale |-> sqlalchemy_numeric(column.attrs.type).numeric_scale]))
    ELSE LET checked == _check_required_attributes(DOMAIN column.attrs)
         IN  IF ~checked.ok THEN checked ELSE Ok(column)

\* ------------------------------------------------------ type mapping
DefaultPrecision == 24
DefaultScale == 2

\* if column.type in TYPE_MAP: column_type = column.type, else "text"
column_type_of(type) == IF IsKey(type, TYPE_MAP) THEN type ELSE S("text")

\* {"type": avro_type, "logicalType": logical_type} when there is a logical
\* type, then {"type": "array", "items": ...} for an array type.
wrapped_avro_type(is_array_type, avro_type, logical_type) ==
    LET with_logical == IF Truthy(logical_type)
                        THEN Dict([type |-> avro_type, logicalType |-> logical_type])
                        ELSE avro_type
    IN  IF is_array_type
        THEN Dict([type |-> S("array"), items |-> with_logical])
        ELSE with_logical

\* avro_type["precision"] = ...; avro_type["scale"] = ...: the keys are set
\* on the type built so far, whatever it is.
with_decimal(avro_type, precision, scale) ==
    Dict(("scale" :> PyOr(scale, PyInt(DefaultScale)))
         @@ ("precision" :> PyOr(precision, PyInt(DefaultPrecision)))
         @@ avro_type.items)

\* The part of _get_avro_type after the lookups: the decimal special case,
\* the nullable union, the return (or the final raise).
finish_avro_type(column, avro_type, logical_type, wrapped) ==
    LET is_decimal == logical_type = S("decimal")
        precision == GetAttr(column, "numeric_precision")
        scale == GetAttr(column, "numeric_scale")
        special == IF is_decimal THEN with_decimal(wrapped, precision.val, scale.val)
                   ELSE wrapped
    IN  IF ~Truthy(avro_type)
        THEN Raise("Exception", "type conversion to AVRO failed")
        ELSE IF is_decimal /\ ~precision.ok THEN precision
        ELSE IF is_decimal /\ ~scale.ok THEN scale
        ELSE IF Truthy(GetAttr(column, "nullable").val)
        THEN Ok(List(<<S("null"), special>>))
        ELSE Ok(special)

\* _get_avro_type once column.type has lost its leading underscore.
avro_type_of_stripped(column, is_array_type, column_type) ==
    [res |-> finish_avro_type(column,
                              MapGet(TYPE_MAP, column_type),
                              MapGet(LOGICAL_TYPES_MAP, column_type),
                              wrapped_avro_type(is_array_type,
                                                MapGet(TYPE_MAP, column_type),
                                                MapGet(LOGICAL_TYPES_MAP, column_type))),
     column |-> column]

\* Returns [res |-> Ok(avro type) or Raise(...), column |-> the column object
\* as the call leaves it] (the call assigns column.type).
_get_avro_type(column) ==
    IF column.attrs.type.tag # "str"
    THEN [res |-> Raise("AttributeError", "startswith"), column |-> column]
    ELSE IF startswith_underscore(column.attrs.type)
    THEN avro_type_of_stripped(SetAttr(column, "type", from_1(column.attrs.type)),
                               TRUE, column_type_of(from_1(column.attrs.type)))
    ELSE avro_type_of_stripped(column, FALSE, column_type_of(column.attrs.type))

\* ---------------------------------------------------- schema assembly
\* isinstance(column, Dict) / any other object that is not of a builtin type
to_column(column, mapping) ==
    IF column.tag = "dict" THEN _dict_to_column(column, mapping)
    ELSE IF column.tag \notin BUILTIN_TYPES THEN _object_to_column(column, mapping)
    ELSE Raise("Exception", "Unsupported column type")

ensure_nullable_default_false(column) ==
    IF ~HasAttr(column, "nullable") THEN SetAttr(column, "nullable", PyBool(FALSE))
    ELSE column

\* if not hasattr(column, "nullable"): column.nullable = True
ensure_nullable(column) ==
    IF ~HasAttr(column, "nullable") THEN SetAttr(column, "nullable", PyBool(TRUE))
    ELSE column

\* if column.type is not None: column.type = column.type.lower()
lowercase_type(column) ==
    IF column.attrs.type # PyNone
    THEN SetAttr(column, "type", lower(column.attrs.type))
    ELSE column

\* field = {"name": column.name, "type": _get_avro_type(column)}. An object
\* passed without mapping is used as it is, so what the library assigned to
\* it was assigned to the caller's object; a Column or ColumnAdapter is a new
\* object (id 0) and the caller's column is untouched.
field_of(column, typed) ==
    [res |-> IF typed.res.ok
             THEN Ok(Dict([name |-> typed.column.attrs.name, type |-> typed.res.val]))
             ELSE typed.res,
     column |-> IF typed.column.id # 0 THEN typed.column ELSE column]

field_of_converted(column, converted) ==
    IF ~converted.ok THEN [res |-> converted, column |-> column]
    ELSE field_of(column, _get_avro_type(lowercase_type(ensure_nullable(converted.val))))

\* The body of the loop over columns: [res |-> Ok(field) or Raise(...),
\* column |-> the caller's column as the iteration leaves it].
column_field(column, mapping) == field_of_converted(column, to_column(column, mapping))

RECURSIVE for_column_in_columns(_, _, _, _)
RECURSIVE after_column(_, _, _, _, _)

\* avro_schema["fields"].append(field), or the exception leaves the loop.
after_column(cols, mapping, i, fields, step) ==
    IF ~step.res.ok
    THEN [res |-> step.res, columns |-> [cols EXCEPT ![i] = step.column]]
    ELSE for_column_in_columns([cols EXCEPT ![i] = step.column], mapping, i + 1,
                               Append(fields, step.res.val))

for_column_in_columns(cols, mapping, i, fields) ==
    IF i > Len(cols) THEN [res |-> Ok(fields), columns |-> cols]
    ELSE after_column(cols, mapping, i, fields, column_field(cols[i], mapping))

avro_schema(table_name, namespace, loop) ==
    [res |-> IF loop.res.ok
             THEN Ok(Dict([namespace |-> namespace,
                           name |-> table_name,
                           type |-> S("record"),
                           fields |-> List(loop.res.val)]))
             ELSE loop.res,
     columns |-> loop.columns]

\* [res |-> Ok(schema) or Raise(...), columns |-> the caller's columns after
\* the call].
get_avro_schema(table_name, namespace, cols, mapping) ==
    avro_schema(table_name, namespace, for_column_in_columns(cols, mapping, 1, <<>>))

\* ------------------------------------------------- the caller's inputs
\* A column description: every field is an option, <<>> (not given) or
\* <<value>>. `shape` says how the caller carries it.
Given(option) == option # <<>>

StandardKeys == COLUMN_ATTRIBUTES
MappedKeys == <<"n", "un", "nul", "np", "ns">>

Options(d) == <<d.name, d.type, d.nullable, d.numeric_precision, d.numeric_scale>>

\* The keys (or attributes) the description gives, under the names `keys`.
Carried(d, keys) ==
    [k \in {keys[j] : j \in {j \in 1..5 : Given(Options(d)[j])}} |->
        Options(d)[CHOOSE j \in 1..5 : keys[j] = k][1]]

\* sqlalchemy: TYPE, TYPE(precision), TYPE(precision, scale), ARRAY(TYPE...)
IsInt(option) == Given(option) /\ option[1].tag = "int"

SqlAlchemyArgs(d) ==
    IF ~IsInt(d.numeric_precision) THEN <<>>
    ELSE IF ~IsInt(d.numeric_scale) THEN <<d.numeric_precision[1].i>>
    ELSE <<d.numeric_precision[1].i, d.numeric_scale[1].i>>

SqlAlchemyType(d) ==
    LET item == Object("TypeEngine", 0,
                       ("__visit_name__" :> [d.type[1] EXCEPT !.lead = 0])
                       @@ [args |-> SqlAlchemyArgs(d)])
    IN  IF d.type[1].lead = 0 THEN item
        ELSE Object("TypeEngine", 0,
                    ("__visit_name__" :> Str(0, TRUE, "array"))
                    @@ [item_type |-> item, args |-> <<>>])

\* sqlalchemy.Column(TYPE, name=..., nullable=...): nullable is True unless given.
SqlAlchemyColumn(d, id) ==
    Object("SqlAlchemyColumn", id,
           [name |-> IF Given(d.name) THEN d.name[1] ELSE PyNone,
            type |-> SqlAlchemyType(d),
            nullable |-> IF Given(d.nullable) THEN d.nullable[1] ELSE PyBool(TRUE)])

\* The caller's column for description d, the id-th object of the list.
Build(d, id) ==
    CASE d.shape = "dict" -> Dict(Carried(d, StandardKeys))
      [] d.shape = "mapped_dict" -> Dict(Carried(d, MappedKeys))
      [] d.shape = "object" -> Object("Col", id, Carried(d, StandardKeys))
      [] d.shape = "mapped_object" -> Object("Col", id, Carried(d, MappedKeys))
      [] d.shape = "sqlalchemy" -> SqlAlchemyColumn(d, id)
      [] d.shape = "tuple" -> Tuple(<<d.name[1], d.type[1]>>)

BuildAll(ds) == [i \in 1..Len(ds) |-> Build(ds[i], i)]

TypeWords ==
    {"bool", "boolean", "char", "character", "bpchar", "enum", "json", "jsonb",
     "inet", "text", "uuid", "varchar", "character varying", "interval",
     "smallint", "integer", "int", "int2", "int4", "date", "time", "bigint",
     "int8", "timestamp", "timestamptz", "timestamp without time zone",
     "timestamp with time zone", "real", "float4", "float8", "double precision",
     "double_precision", "array", "daterange", "int4range", "int2vector",
     "numeric", "custom_type", "string"}

TypeNames == {Str(l, c, w) : l \in 0..MaxLead, c \in BOOLEAN, w \in TypeWords}

Shapes == {"dict", "mapped_dict", "object", "mapped_object", "sqlalchemy"}

NullableOptions == {<<>>, <<PyBool(TRUE)>>, <<PyBool(FALSE)>>, <<PyNone>>}
PrecisionOptions == {<<>>, <<PyNone>>, <<PyInt(3)>>, <<PyInt(10)>>}
ScaleOptions == {<<>>, <<PyNone>>, <<PyInt(0)>>, <<PyInt(2)>>, <<PyInt(7)>>, <<PyInt(10)>>}

Desc(shape, name, type, nullable, numeric_precision, numeric_scale) ==
    [shape |-> shape, name |-> name, type |-> type, nullable |-> nullable,
     numeric_precision |-> numeric_precision, numeric_scale |-> numeric_scale]

\* A SQLAlchemy column has a named type or an ARRAY of one; a type named
\* ARRAY without item type cannot be built.
Buildable(d) ==
    d.shape = "sqlalchemy" => d.type[1].lead <= 1 /\ d.type[1].word # "array"

\* A column list of one column: every type name in every shape.
TypedDescs ==
    {d \in {Desc(sh, <<S("c1")>>, <<t>>, n, <<>>, <<>>) :
                sh \in Shapes, t \in TypeNames, n \in NullableOptions} :
        Buildable(d)}

\* numeric columns with every declared precision and scale
NumericDescs ==
    {Desc(sh, <<S("c1")>>, <<Str(l, FALSE, "numeric")>>, <<PyBool(n)>>, p, s) :
        sh \in Shapes, l \in 0..1, n \in BOOLEAN,
        p \in PrecisionOptions, s \in ScaleOptions}

\* columns that lack a name or a type, or whose type is None, and a tuple
MalformedDescs ==
    {Desc(sh, nm, t, <<PyBool(FALSE)>>, <<>>, <<>>) :
        sh \in Shapes \ {"sqlalchemy"},
        nm \in {<<>>, <<S("c1")>>},
        t \in {<<>>, <<PyNone>>, <<S("smallint")>>}}
    \cup {Desc("tuple", <<S("c1")>>, <<S("smallint")>>, <<>>, <<>>, <<>>)}

\* Longer lists draw each column from a smaller set: every shape, array and
\* numeric types, and columns without a name.
ListDescs ==
    {Desc("dict", <<S("c")>>, <<S("int4")>>, <<PyBool(FALSE)>>, <<>>, <<>>),
     Desc("dict", <<S("c")>>, <<Str(1, FALSE, "varchar")>>, <<>>, <<>>, <<>>),
     Desc("dict", <<S("c")>>, <<S("numeric")>>, <<PyBool(FALSE)>>, <<>>, <<>>),
     Desc("object", <<S("c")>>, <<Str(1, TRUE, "varchar")>>, <<>>, <<>>, <<>>),
     Desc("object", <<S("c")>>, <<S("numeric")>>, <<PyBool(FALSE)>>, <<>>, <<>>),
     Desc("object", <<S("c")>>, <<S("int4")>>, <<PyBool(FALSE)>>, <<>>, <<>>),
     Desc("mapped_dict", <<S("c")>>, <<S("int4")>>, <<PyBool(FALSE)>>, <<>>, <<>>),
     Desc("mapped_object", <<S("c")>>, <<Str(1, FALSE, "varchar")>>, <<>>, <<>>, <<>>),
     Desc("sqlalchemy", <<S("c")>>, <<Str(0, TRUE, "integer")>>, <<PyBool(FALSE)>>, <<>>, <<>>),
     Desc("sqlalchemy", <<S("c")>>, <<Str(1, TRUE, "varchar")>>, <<>>, <<>>, <<>>),
     Desc("dict", <<>>, <<S("int4")>>, <<PyBool(FALSE)>>, <<>>, <<>>),
     Desc("object", <<>>, <<S("int4")>>, <<PyBool(FALSE)>>, <<>>, <<>>)}

\* The i-th column of a longer list is named "c<i>".
Named(ds) ==
    [i \in 1..Len(ds) |->
        IF Given(ds[i].name)
        THEN [ds[i] EXCEPT !.name = <<Str(0, FALSE, <<"c1", "c2", "c3", "c4">>[i])>>]
        ELSE ds[i]]

TableNames == {"test_table", "t"}
Namespaces == {"test_namespace"}

MappingKwargs ==
    {[name |-> "n", type |-> "un", nullable |-> "nul",
      numeric_precision |-> "np", numeric_scale |-> "ns"],
     [name |-> "n", type |-> "un", nullable |-> "nul"]}

\* ------------------------------------------------------ state machine
Init ==
    /\ \/ \E d \in TypedDescs \cup NumericDescs \cup MalformedDescs :
              columns = BuildAll(<<d>>)
       \/ \E n \in 2..MaxCols : \E ds \in [1..n -> ListDescs] :
              columns = BuildAll(Named(ds))
    /\ column_mapping = PyNone
    /\ called = [op |-> "none"]
    /\ returned = Ok(PyNone)
    /\ ncalls = 0

\* What a call leaves behind: the outcome, and the mapping when one was built.
Constructed(kwargs, made) ==
    /\ called' = [op |-> "ColumnMapping", kwargs |-> kwargs]
    /\ returned' = made
    /\ column_mapping' = IF made.ok THEN made.val ELSE column_mapping

\* mapping = ColumnMapping(**kwargs)
NewColumnMapping ==
    /\ column_mapping = PyNone
    /\ \E kwargs \in MappingKwargs : Constructed(kwargs, ColumnMapping(kwargs))
    /\ UNCHANGED <<columns, ncalls>>

Returned(table_name, namespace, mapping, call) ==
    /\ called' = [op |-> "get_avro_schema",
                  table_name |-> table_name,
                  namespace |-> namespace,
                  columns |-> columns,
                  column_mapping |-> mapping]
    /\ returned' = call.res
    /\ columns' = call.columns

PassedMapping(pass_mapping) == IF pass_mapping THEN column_mapping ELSE PyNone

\* get_avro_schema(table_name, namespace, columns[, column_mapping])
CallGetAvroSchema ==
    /\ ncalls < MaxCalls
    /\ \E table_name \in TableNames, namespace \in Namespaces, pass_mapping \in BOOLEAN :
          Returned(S(table_name), S(namespace), PassedMapping(pass_mapping),
                   get_avro_schema(S(table_name), S(namespace), columns,
                                   PassedMapping(pass_mapping)))
    /\ ncalls' = ncalls + 1
    /\ UNCHANGED column_mapping

Next == NewColumnMapping \/ CallGetAvroSchema

Spec == Init /\ [][Next]_vars

\* ------------------------------------------- reading a call's arguments
\* What a claim means by "the column's name / type name / nullable": read
\* from the column as it was passed, under the key names in force.
SchemaCall == called.op = "get_avro_schema"

SchemaReturned == SchemaCall /\ returned.ok

Passed == called.columns

Fields == returned.val.items.fields.elems

KeyNames(mapping) ==
    IF mapping = PyNone THEN StandardKeys
    ELSE <<mapping.attrs.name, mapping.attrs.type, mapping.attrs.nullable,
           mapping.attrs.numeric_precision, mapping.attrs.numeric_scale>>

IsSqlAlchemy(col) == col.tag = "object" /\ col.cls = "SqlAlchemyColumn"

\* the keys of a dict column, the attributes of an object column
Members(col) ==
    IF col.tag = "dict" THEN col.items
    ELSE IF col.tag = "object" THEN col.attrs
    ELSE <<>>

\* the option (<<>> or <<value>>) the column gives for the j-th of
\* name, type, nullable, numeric_precision, numeric_scale
Read(col, mapping, j) ==
    IF IsSqlAlchemy(col)
    THEN CASE j = 1 -> <<col.attrs.name>>
           [] j = 2 -> IF "item_type" \in DOMAIN col.attrs.type.attrs
                       THEN <<[col.attrs.type.attrs.item_type.attrs["__visit_name__"]
                                  EXCEPT !.lead = 1]>>
                       ELSE <<col.attrs.type.attrs["__visit_name__"]>>
           [] j = 3 -> <<col.attrs.nullable>>
           [] j = 4 -> IF Len(type_str_base(col.attrs.type).attrs.args) > 0
                       THEN <<PyInt(type_str_base(col.attrs.type).attrs.args[1])>>
                       ELSE <<>>
           [] j = 5 -> IF Len(type_str_base(col.attrs.type).attrs.args) > 1
                       THEN <<PyInt(type_str_base(col.attrs.type).attrs.args[2])>>
                       ELSE <<>>
    ELSE IF KeyNames(mapping)[j] \in DOMAIN Members(col)
         THEN <<Members(col)[KeyNames(mapping)[j]]>>
         ELSE <<>>

NameOf(i) == Read(Passed[i], called.column_mapping, 1)
TypeOf(i) == Read(Passed[i], called.column_mapping, 2)
NullableOf(i) == Read(Passed[i], called.column_mapping, 3)
PrecisionOf(i) == Read(Passed[i], called.column_mapping, 4)
ScaleOf(i) == Read(Passed[i], called.column_mapping, 5)

IsTypeName(option) == Given(option) /\ option[1].tag = "str"

\* The type name a column's type stands for: lower-cased, and without the
\* one leading underscore that marks an array.
BaseName(type) ==
    IF type.lead > 0 THEN [type EXCEPT !.lead = @ - 1, !.caps = FALSE]
    ELSE [type EXCEPT !.caps = FALSE]

IsNamed(type, words) == type.lead = 0 /\ ~type.caps /\ type.word \in words

\* A column the library accepts: a dict or an object that gives a name and
\* a type name under the key names in force, or a SQLAlchemy column passed
\* without mapping.
ValidColumn(col, mapping) ==
    IF IsSqlAlchemy(col) THEN mapping = PyNone
    ELSE /\ col.tag \in {"dict", "object"}
         /\ Given(Read(col, mapping, 1))
         /\ IsTypeName(Read(col, mapping, 2))

AllValid == \A i \in 1..Len(Passed) : ValidColumn(Passed[i], called.column_mapping)

\* The declared type without the nullable union around it.
NonNull(t) == IF t.tag = "list" THEN t.elems[2] ELSE t

\* ... and without the array around the item type.
Item(t) ==
    IF NonNull(t).tag = "dict" /\ "items" \in DOMAIN NonNull(t).items
    THEN NonNull(t).items.items
    ELSE NonNull(t)

\* The Avro primitive type a declared type is built on.
Primitive(t) == IF Item(t).tag = "dict" THEN Item(t).items.type ELSE Item(t)

DeclaredType(i) == Fields[i].items.type

\* ---------------------------------------------------------------- C1
ExpectedPrimitive ==
    [w \in {"bool", "boolean"} |-> "boolean"]
    @@ [w \in {"char", "character", "bpchar", "enum", "json", "jsonb", "inet",
               "text", "uuid", "varchar", "character varying", "interval"} |-> "string"]
    @@ [w \in {"smallint", "integer", "int", "int2", "int4", "date", "time"} |-> "int"]
    @@ [w \in {"bigint", "int8", "timestamp", "timestamptz",
               "timestamp without time zone", "timestamp with time zone"} |-> "long"]
    @@ [w \in {"real", "float4"} |-> "float"]
    @@ [w \in {"float8", "double precision", "double_precision"} |-> "double"]
    @@ [w \in {"array", "daterange", "int4range", "int2vector"} |-> "array"]
    @@ [w \in {"numeric"} |-> "bytes"]

\* C1: in every schema get_avro_schema returns, each field is declared on
\* the Avro primitive type that the static table gives for the column's type
\* name (lower-cased, without the array underscore), and on "string" when
\* the table does not list that name; no type name is rejected.
C1_PrimitiveTypeFromTable ==
    SchemaReturned =>
        \A i \in 1..Len(Passed) :
            Primitive(DeclaredType(i)) =
                S(IF IsNamed(BaseName(TypeOf(i)[1]), DOMAIN ExpectedPrimitive)
                  THEN ExpectedPrimitive[BaseName(TypeOf(i)[1]).word]
                  ELSE "string")

\* A returned schema declares a column of the unlisted type "custom_type"
\* as string.
C1_Witness ==
    /\ SchemaReturned
    /\ TypeOf(1) = <<S("custom_type")>>
    /\ NullableOf(1) = <<PyBool(FALSE)>>
    /\ DeclaredType(1) = S("string")

\* ---------------------------------------------------------------- C2
\* C2: for valid columns get_avro_schema returns a dictionary with exactly
\* the keys namespace, name, type, fields; namespace and name are the
\* arguments, type is "record", and fields has one {name, type} entry per
\* column, in input order, named after the column.
C2_RecordSchemaShape ==
    (SchemaCall /\ AllValid) =>
        /\ returned.ok
        /\ returned.val.tag = "dict"
        /\ DOMAIN returned.val.items = {"namespace", "name", "type", "fields"}
        /\ returned.val.items.namespace = called.namespace
        /\ returned.val.items.name = called.table_name
        /\ returned.val.items.type = S("record")
        /\ returned.val.items.fields.tag = "list"
        /\ Len(Fields) = Len(Passed)
        /\ \A i \in 1..Len(Passed) :
              /\ Fields[i].tag = "dict"
              /\ DOMAIN Fields[i].items = {"name", "type"}
              /\ Fields[i].items.name = NameOf(i)[1]

\* ---------------------------------------------------------------- C3
\* The column with its nullable set to v / with its type name less one
\* leading underscore (the item type of a SQLAlchemy ARRAY).
WithNullable(col, mapping, v) ==
    IF IsSqlAlchemy(col) THEN [col EXCEPT !.attrs.nullable = v]
    ELSE IF col.tag = "dict"
    THEN [col EXCEPT !.items = (KeyNames(mapping)[3] :> v) @@ @]
    ELSE [col EXCEPT !.attrs = (KeyNames(mapping)[3] :> v) @@ @]

\* The type get_avro_schema declares for a column alone.
TypeAlone(col, mapping) == column_field(col, mapping).res.val.items.type

\* T: the type of the same column when it is not nullable
NotNullType(i) ==
    TypeAlone(WithNullable(Passed[i], called.column_mapping, PyBool(FALSE)),
              called.column_mapping)

\* C3: a nullable column is declared ["null", T] and a column that is not
\* nullable T alone, T being the type of the same column declared not
\* nullable; the union is the outermost wrapper (T is never a union itself);
\* a column that gives no nullable value is declared as a nullable one.
C3_NullableIsOutermostUnion ==
    SchemaReturned =>
        \A i \in 1..Len(Passed) :
            /\ NotNullType(i).tag # "list"
            /\ (NullableOf(i) = <<PyBool(TRUE)>> \/ NullableOf(i) = <<>>)
                  => DeclaredType(i) = List(<<S("null"), NotNullType(i)>>)
            /\ NullableOf(i) = <<PyBool(FALSE)>>
                  => DeclaredType(i) = NotNullType(i)

\* An array column that gives no nullable value is declared as the union
\* of "null" and the array type.
C3_Witness ==
    /\ SchemaReturned
    /\ TypeOf(1) = <<Str(1, FALSE, "varchar")>>
    /\ NullableOf(1) = <<>>
    /\ Passed[1].tag = "object"
    /\ DeclaredType(1) =
          List(<<S("null"), Dict([type |-> S("array"), items |-> S("string")])>>)

\* ---------------------------------------------------------------- C4
ItemColumn(col, mapping) ==
    IF IsSqlAlchemy(col) THEN [col EXCEPT !.attrs.type = @.attrs.item_type]
    ELSE IF col.tag = "dict"
    THEN [col EXCEPT !.items[KeyNames(mapping)[2]] = from_1(@)]
    ELSE [col EXCEPT !.attrs[KeyNames(mapping)[2]] = from_1(@)]

\* E: the type of a not nullable column of the item type x
ItemType(i) ==
    TypeAlone(WithNullable(ItemColumn(Passed[i], called.column_mapping),
                           called.column_mapping, PyBool(FALSE)),
              called.column_mapping)

\* C4: a column of type "_x", or a SQLAlchemy column of type ARRAY(x), is
\* declared {"type": "array", "items": E}, E being exactly what a column of
\* type x that is not nullable is declared with.
C4_ArrayOfItemType ==
    SchemaReturned =>
        \A i \in 1..Len(Passed) :
            TypeOf(i)[1].lead > 0 =>
                NonNull(DeclaredType(i)) =
                    Dict([type |-> S("array"), items |-> ItemType(i)])

\* ---------------------------------------------------------------- C5
TimestampNames ==
    {"timestamp", "timestamptz", "timestamp without time zone",
     "timestamp with time zone"}

Logical(type, logicalType) == Dict([type |-> S(type), logicalType |-> S(logicalType)])

ExpectedLogical(base) ==
    IF IsNamed(base, {"date"}) THEN Logical("int", "date")
    ELSE IF IsNamed(base, {"time"}) THEN Logical("int", "timestamp-millis")
    ELSE Logical("long", "timestamp-millis")

\* C5: date is declared {"type": "int", "logicalType": "date"}, time
\* {"type": "int", "logicalType": "timestamp-millis"}, every timestamp name
\* {"type": "long", "logicalType": "timestamp-millis"} (the declared type
\* itself when the column is not nullable and no array, the item or
\* non-null type otherwise); a type name outside the logical-type table is
\* declared on a plain primitive type, with no logicalType key.
C5_LogicalTypes ==
    SchemaReturned =>
        \A i \in 1..Len(Passed) :
            /\ IsNamed(BaseName(TypeOf(i)[1]), {"date", "time"} \cup TimestampNames)
                  => /\ Item(DeclaredType(i)) = ExpectedLogical(BaseName(TypeOf(i)[1]))
                     /\ (TypeOf(i)[1].lead = 0 /\ NullableOf(i) = <<PyBool(FALSE)>>)
                           => DeclaredType(i) = ExpectedLogical(BaseName(TypeOf(i)[1]))
            /\ ~IsNamed(BaseName(TypeOf(i)[1]),
                        {"date", "time", "numeric"} \cup TimestampNames)
                  => Item(DeclaredType(i)).tag = "str"

\* A time column that is not nullable is declared as int with the logical
\* type timestamp-millis.
C5_Witness ==
    /\ SchemaReturned
    /\ TypeOf(1) = <<S("time")>>
    /\ NullableOf(1) = <<PyBool(FALSE)>>
    /\ DeclaredType(1) = Logical("int", "timestamp-millis")

\* ---------------------------------------------------------------- C6
IsNumericColumn(i) == TypeOf(i)[1].lead = 0 /\ TypeOf(i)[1].word = "numeric"

\* a precision or scale is declared when it is given and is not None
Declared(option) == Given(option) /\ option[1] # PyNone

Decimal(precision, scale) ==
    Dict([type |-> S("bytes"), logicalType |-> S("decimal"),
          precision |-> precision, scale |-> scale])

\* C6: a numeric column is declared {"type": "bytes", "logicalType":
\* "decimal", "precision": P, "scale": S} with P and S the declared
\* precision and scale whenever they are declared, and P = 38, S = 9 when
\* neither is declared.
C6_DecimalPrecisionScale ==
    SchemaReturned =>
        \A i \in 1..Len(Passed) :
            IsNumericColumn(i) =>
                /\ NonNull(DeclaredType(i)).tag = "dict"
                /\ DOMAIN NonNull(DeclaredType(i)).items =
                      {"type", "logicalType", "precision", "scale"}
                /\ NonNull(DeclaredType(i)).items.type = S("bytes")
                /\ NonNull(DeclaredType(i)).items.logicalType = S("decimal")
                /\ Declared(PrecisionOf(i))
                      => NonNull(DeclaredType(i)).items.precision = PrecisionOf(i)[1]
                /\ Declared(ScaleOf(i))
                      => NonNull(DeclaredType(i)).items.scale = ScaleOf(i)[1]
                /\ (~Declared(PrecisionOf(i)) /\ ~Declared(ScaleOf(i)))
                      => NonNull(DeclaredType(i)) = Decimal(PyInt(38), PyInt(9))

\* ---------------------------------------------------------------- C7
\* C7: a numeric column that is not nullable, declared with precision 10
\* and scale 10, is declared as the plain primitive "double", as a
\* SQLAlchemy NUMERIC(10, 10) column and as an object read through a
\* ColumnMapping.
C7_NumericToDouble ==
    SchemaReturned =>
        \A i \in 1..Len(Passed) :
            (/\ IsNumericColumn(i)
             /\ NullableOf(i) = <<PyBool(FALSE)>>
             /\ PrecisionOf(i) = <<PyInt(10)>>
             /\ ScaleOf(i) = <<PyInt(10)>>
             /\ \/ IsSqlAlchemy(Passed[i])
                \/ Passed[i].tag = "object" /\ called.column_mapping # PyNone)
            => DeclaredType(i) = S("double")

\* ---------------------------------------------------------------- C8
\* A column that carries a (name, type name, nullable) description and
\* nothing else, in one of the supported shapes.
Describes(col, mapping) ==
    /\ ValidColumn(col, mapping) \/ (col.tag = "object" /\ ~IsSqlAlchemy(col))
    /\ Given(Read(col, mapping, 1))
    /\ IsTypeName(Read(col, mapping, 2))
    /\ ~Given(Read(col, mapping, 4))
    /\ ~Given(Read(col, mapping, 5))

\* The same description as a dict with name/type/nullable keys.
AsDict(col, mapping) ==
    Dict([k \in {StandardKeys[j] : j \in {j \in 1..3 : Given(Read(col, mapping, j))}} |->
            Read(col, mapping, CHOOSE j \in 1..3 : StandardKeys[j] = k)[1]])

AsDicts == [i \in 1..Len(Passed) |-> AsDict(Passed[i], called.column_mapping)]

\* C8: whichever supported shape carries a list of (name, type name,
\* nullable) descriptions, get_avro_schema returns what it returns for the
\* same descriptions passed as dicts with name/type/nullable keys and no
\* mapping.
C8_SameSchemaForEveryShape ==
    (SchemaCall /\ \A i \in 1..Len(Passed) : Describes(Passed[i], called.column_mapping))
        => returned = get_avro_schema(called.table_name, called.namespace,
                                      AsDicts, PyNone).res

\* ---------------------------------------------------------------- C9
\* C9: a ColumnMapping can be built from the name, type and nullable key
\* names alone.
C9_MappingFromThreeKeys ==
    (called.op = "ColumnMapping"
        /\ {"name", "type", "nullable"} \subseteq DOMAIN called.kwargs)
    => returned.ok

\* --------------------------------------------------------------- C10
\* a dict, or an object that is no SQLAlchemy column, without a name or
\* without a type key/attribute
LacksRequired(col) ==
    /\ col.tag \in {"dict", "object"}
    /\ ~IsSqlAlchemy(col)
    /\ ~({"name", "type"} \subseteq DOMAIN Members(col))

\* C10: without ColumnMapping, a column list in which a column lacks a name
\* or a type, after columns that are valid, makes get_avro_schema raise the
\* exception "Assuming pg2avro compatible column interface ..." and return
\* no schema, at whatever position that column is.
C10_MissingRequiredAttributeRaises ==
    (/\ SchemaCall
     /\ called.column_mapping = PyNone
     /\ \E i \in 1..Len(Passed) :
           /\ LacksRequired(Passed[i])
           /\ \A j \in 1..(i - 1) : ValidColumn(Passed[j], PyNone))
    => returned = Raise("Exception", AssumingCompatible)

\* ------------------------------------------------ row values (Python)
\* Further Python values a row carries:
\*   a float         [tag |-> "float", repr]: `repr` is the float's repr()
\*   a date          [tag |-> "date", year, month, day]
\*   a datetime      [tag |-> "datetime", year, ..., microsecond], aware, UTC
\*   a timedelta     [tag |-> "timedelta", days, seconds, microseconds]
\*   a range         [tag |-> "DateRange" / "NumericRange", lower, upper]
\*   a dict whose key order matters (json.dumps) or of a dict subclass:
\*                   [tag |-> "dict", cls, order, items]
PyFloat(repr) == [tag |-> "float", repr |-> repr]
Date(year, month, day) == [tag |-> "date", year |-> year, month |-> month, day |-> day]
Datetime(year, month, day, hour, minute, second, microsecond) ==
    [tag |-> "datetime", year |-> year, month |-> month, day |-> day,
     hour |-> hour, minute |-> minute, second |-> second, microsecond |-> microsecond]
Timedelta(days, seconds, microseconds) ==
    [tag |-> "timedelta", days |-> days, seconds |-> seconds, microseconds |-> microseconds]
DateRange(lo, hi) == [tag |-> "DateRange", lower |-> lo, upper |-> hi]
NumericRange(lo, hi) == [tag |-> "NumericRange", lower |-> lo, upper |-> hi]
DictOf(cls, order, items) == [tag |-> "dict", cls |-> cls, order |-> order, items |-> items]

\* date.toordinal(): days since 0001-01-01, that day being 1.
is_leap(year) == year % 4 = 0 /\ (year % 100 # 0 \/ year % 400 = 0)

days_before_year(year) ==
    (year - 1) * 365 + (year - 1) \div 4 - (year - 1) \div 100 + (year - 1) \div 400

days_before_month(year, month) ==
    <<0, 31, 59, 90, 120, 151, 181, 212, 243, 273, 304, 334>>[month]
        + (IF month > 2 /\ is_leap(year) THEN 1 ELSE 0)

toordinal(d) == days_before_year(d.year) + days_before_month(d.year, d.month) + d.day

\* (a - b).days of two dates
days_between(a, b) == toordinal(a) - toordinal(b)

\* -------------------------------------------------- float arithmetic
\* A positive float is [m, e]: m the 53 bits of its significand, most
\* significant (a 1) first, e the exponent of that first bit; its value is
\* the sum of m[i] * 2^(e - i + 1). Zero is [m |-> <<>>, e |-> 0].
MantissaBits == 53
Micro == 1000000

RECURSIVE bits_of(_)
bits_of(n) == IF n = 0 THEN <<>> ELSE Append(bits_of(n \div 2), n % 2)

\* The number whose binary digits are the first k of bits.
RECURSIVE value_of(_, _)
value_of(bits, k) == IF k = 0 THEN 0 ELSE 2 * value_of(bits, k - 1) + bits[k]

\* bits + 1; a carry out of the first bit makes the sequence one bit longer.
plus_one(bits) ==
    IF \A i \in DOMAIN bits : bits[i] = 1
    THEN <<1>> \o [i \in DOMAIN bits |-> 0]
    ELSE LET last == CHOOSE i \in DOMAIN bits :
                        bits[i] = 0 /\ \A j \in i + 1..Len(bits) : bits[j] = 1
         IN  [i \in DOMAIN bits |->
                 IF i < last THEN bits[i] ELSE IF i = last THEN 1 ELSE 0]

\* Round to nearest, ties to even: `bits` are the exact leading bits (at
\* least MantissaBits + 1 of them, the first a 1, the first at exponent e)
\* and `sticky` says whether anything non-zero follows them.
round_to_float(bits, e, sticky) ==
    LET kept == SubSeq(bits, 1, MantissaBits)
        guard == bits[MantissaBits + 1]
        rest == sticky \/ \E i \in MantissaBits + 2..Len(bits) : bits[i] = 1
        up == guard = 1 /\ (rest \/ kept[MantissaBits] = 1)
        raised == plus_one(kept)
    IN  IF ~up THEN [m |-> kept, e |-> e]
        ELSE IF Len(raised) > MantissaBits
             THEN [m |-> SubSeq(raised, 1, MantissaBits), e |-> e + 1]
        ELSE [m |-> raised, e |-> e]

\* The binary digits of r / Micro (r < Micro) after those in `bits`, until
\* there are n of them; zeros before the first 1 are skipped and counted.
RECURSIVE quotient_bits(_, _, _, _)
quotient_bits(r, bits, skipped, n) ==
    IF Len(bits) >= n \/ (r = 0 /\ bits = <<>>)
    THEN [bits |-> bits, rem |-> r, skipped |-> skipped]
    ELSE IF 2 * r >= Micro
         THEN quotient_bits(2 * r - Micro, Append(bits, 1), skipped, n)
    ELSE IF bits = <<>> THEN quotient_bits(2 * r, bits, skipped + 1, n)
    ELSE quotient_bits(2 * r, Append(bits, 0), skipped, n)

\* (seconds * 10**6 + microseconds) / 10**6: int / int, correctly rounded.
rounded_quotient(whole, q) ==
    IF q.bits = <<>> THEN [m |-> <<>>, e |-> 0]
    ELSE round_to_float(q.bits,
                        IF whole > 0 THEN Len(bits_of(whole)) - 1 ELSE -(q.skipped + 1),
                        q.rem # 0)

true_divide_micro(seconds, microseconds) ==
    rounded_quotient(seconds,
                     quotient_bits(microseconds, bits_of(seconds), 0, MantissaBits + 1))

\* bits * c for a small int c, from the last bit on: `low` are the bits of
\* the product found so far, `carry` what is carried into bit i (both are
\* natural, which the test evaluates before the next step).
RECURSIVE times_small(_, _, _, _, _)
times_small(bits, c, i, carry, low) ==
    IF i = 0 THEN bits_of(carry) \o low
    ELSE IF carry >= 0 /\ Len(low) >= 0
         THEN times_small(bits, c, i - 1, (bits[i] * c + carry) \div 2,
                          <<(bits[i] * c + carry) % 2>> \o low)
    ELSE <<>>

product_float(x, product) ==
    round_to_float(product \o <<0>>, x.e + Len(product) - MantissaBits, FALSE)

\* x * c for a float x and a small int c that a float holds exactly.
float_times(x, c) ==
    IF x.m = <<>> THEN x
    ELSE product_float(x, times_small(x.m, c, MantissaBits, 0, <<>>))

\* int(x): truncation
float_to_int(x) ==
    IF x.m = <<>> \/ x.e < 0 THEN 0
    ELSE value_of(x.m, x.e + 1)

\* ------------------------------------------------------- str(), json
\* The text of a lower-case str.
RECURSIVE underscores(_)
underscores(n) == IF n = 0 THEN "" ELSE "_" \o underscores(n - 1)

text_of(s) == underscores(s.lead) \o s.word

\* "%0<width>d" % n
RECURSIVE zero_padded(_, _)
zero_padded(n, width) ==
    IF width <= 1 \/ n >= 10 ^ (width - 1) THEN ToString(n)
    ELSE "0" \o zero_padded(n, width - 1)

\* str(timedelta) of a timedelta that is not negative
timedelta_str(v) ==
    (IF v.days = 0 THEN ""
     ELSE ToString(v.days) \o (IF v.days = 1 THEN " day, " ELSE " days, "))
    \o ToString(v.seconds \div 3600) \o ":"
    \o zero_padded((v.seconds \div 60) % 60, 2) \o ":"
    \o zero_padded(v.seconds % 60, 2)
    \o (IF v.microseconds = 0 THEN "" ELSE "." \o zero_padded(v.microseconds, 6))

\* ", ".join(texts[i:])
RECURSIVE joined(_, _)
joined(texts, i) ==
    IF i > Len(texts) THEN ""
    ELSE IF i = Len(texts) THEN texts[i]
    ELSE texts[i] \o ", " \o joined(texts, i + 1)

\* What json.dumps can encode.
RECURSIVE serializable(_)
serializable(v) ==
    CASE v.tag \in {"NoneType", "bool", "int", "float", "str"} -> TRUE
      [] v.tag \in {"list", "tuple"} -> \A i \in DOMAIN v.elems : serializable(v.elems[i])
      [] v.tag = "dict" -> \A k \in DOMAIN v.items : serializable(v.items[k])
      [] OTHER -> FALSE

RECURSIVE json_text(_)
json_text(v) ==
    CASE v.tag = "NoneType" -> "null"
      [] v.tag = "bool" -> IF v.b THEN "true" ELSE "false"
      [] v.tag = "int" -> ToString(v.i)
      [] v.tag = "float" -> v.repr
      [] v.tag = "str" -> "\"" \o text_of(v) \o "\""
      [] v.tag \in {"list", "tuple"} ->
            "[" \o joined([i \in DOMAIN v.elems |-> json_text(v.elems[i])], 1) \o "]"
      [] v.tag = "dict" ->
            "{" \o joined([i \in DOMAIN v.order |->
                              "\"" \o v.order[i] \o "\": " \o json_text(v.items[v.order[i]])], 1)
                \o "}"

\* json.dumps(v)
json_dumps(v) ==
    IF serializable(v) THEN Ok(S(json_text(v)))
    ELSE Raise("TypeError", "is not JSON serializable")

\* ------------------------------------------------- row -> Avro values
EPOCH == Date(1970, 1, 1)

\* datetime.timestamp() of an aware UTC datetime not before the epoch:
\* (v - _EPOCH).total_seconds()
timestamp(v) ==
    true_divide_micro(days_between(v, EPOCH) * 86400
                          + v.hour * 3600 + v.minute * 60 + v.second,
                      v.microsecond)

\* v - date(1970, 1, 1) for a bound of a DateRange
minus_epoch(v) ==
    IF v.tag = "date" THEN Ok(days_between(v, EPOCH))
    ELSE Raise("TypeError", "unsupported operand type(s) for -")

date_range_days(lo, hi) ==
    IF ~lo.ok THEN lo
    ELSE IF ~hi.ok THEN hi
    ELSE Ok(List(<<PyInt(lo.val), PyInt(hi.val)>>))

not_none(i) == i # PyNone

\* The if / elif chain of get_avro_row_dict: the value stored for v.
avro_value(v, column_type) ==
    CASE v = PyNone /\ column_type = S("array") -> Ok(List(<<>>))
      [] v.tag = "dict" -> json_dumps(v)
      [] v.tag = "datetime" -> Ok(PyInt(float_to_int(float_times(timestamp(v), 1000))))
      [] v.tag = "date" -> Ok(PyInt(days_between(v, EPOCH)))
      [] v.tag = "timedelta" -> Ok(S(timedelta_str(v)))
      [] v.tag = "DateRange" -> date_range_days(minus_epoch(v.lower), minus_epoch(v.upper))
      [] v.tag = "NumericRange" -> Ok(List(<<v.lower, v.upper>>))
      [] v.tag = "list" -> Ok(List(SelectSeq(v.elems, not_none)))
      [] OTHER -> Ok(v)

\* index of the first field named `attribute`
field_index(attribute, fields_schema) ==
    CHOOSE i \in DOMAIN fields_schema :
        /\ fields_schema[i].items.name = attribute
        /\ \A j \in 1..i - 1 : fields_schema[j].items.name # attribute

_get_row_attr(row, attribute, fields_schema) ==
    CASE row.tag = "dict" -> Ok(DictGet(row, text_of(attribute), PyNone))
      [] row.tag \in {"tuple", "list"} ->
            IF field_index(attribute, fields_schema) \in DOMAIN row.elems
            THEN Ok(row.elems[field_index(attribute, fields_schema)])
            ELSE Raise("IndexError", "index out of range")
      [] row.tag = "object" -> GetAttr(row, text_of(attribute))
      [] row.tag \in BUILTIN_TYPES -> Raise("Exception", "Unsupported row type.")
      [] OTHER -> Raise("AttributeError", text_of(attribute))

\* avro_dict[k] = value
set_item(d, k, value) ==
    DictOf("dict",
           IF k \in DOMAIN d.items THEN d.order ELSE Append(d.order, k),
           (k :> value) @@ d.items)

RECURSIVE for_schema_row_in_fields(_, _, _, _)

stored(row, fields, i, avro_dict, k, value) ==
    IF ~value.ok THEN value
    ELSE for_schema_row_in_fields(row, fields, i + 1, set_item(avro_dict, k, value.val))

converted(row, fields, i, avro_dict, v) ==
    IF ~v.ok THEN v
    ELSE stored(row, fields, i, avro_dict, text_of(fields[i].items.name),
                avro_value(v.val, fields[i].items.type))

for_schema_row_in_fields(row, fields, i, avro_dict) ==
    IF i > Len(fields) THEN Ok(avro_dict)
    ELSE converted(row, fields, i, avro_dict,
                   _get_row_attr(row, fields[i].items.name, fields))

\* get_avro_row_dict(row, schema)
get_avro_row_dict(row, schema) ==
    for_schema_row_in_fields(row, schema.items.fields.elems, 1, DictOf("dict", <<>>, <<>>))

\* ------------------------------------------------ calls with overrides
\* A builtin type passed as a value (str, float, list, int).
PyType(name) == [tag |-> "type", name |-> name]

\* Python binds the arguments of a call to the parameters of the def before
\* the body runs, and raises TypeError when they do not fit.
get_avro_schema_parameters == <<"table_name", "namespace", "columns", "column_mapping">>
get_avro_row_dict_parameters == <<"row", "schema">>

\* get_avro_schema(table_name, namespace, columns, **kwargs)
get_avro_schema_kwargs(table_name, namespace, cols, kwargs) ==
    IF DOMAIN kwargs \subseteq Range(get_avro_schema_parameters)
    THEN get_avro_schema(table_name, namespace, cols,
                         IF "column_mapping" \in DOMAIN kwargs
                         THEN kwargs.column_mapping ELSE PyNone)
    ELSE [res |-> Raise("TypeError", "got an unexpected keyword argument"),
          columns |-> cols]

\* get_avro_row_dict(*args)
get_avro_row_dict_args(args) ==
    IF Len(args) > Len(get_avro_row_dict_parameters)
    THEN Raise("TypeError", "takes 2 positional arguments but 3 were given")
    ELSE get_avro_row_dict(args[1], args[2])

\* ------------------------------------------------------- row inputs
\* Columns as the row tests give them: dicts with name, type and nullable.
RowTypeNames ==
    {S("varchar"), S("float4"), S("bool"), S("json"), S("date"), S("timestamp"),
     S("numeric"), S("array"), S("daterange"), S("int4range"), S("int2vector"),
     Str(1, FALSE, "varchar"), Str(1, FALSE, "int4"), Str(1, FALSE, "numeric")}

RowColumnDescs ==
    {Desc("dict", <<S("c1")>>, <<t>>, <<PyBool(n)>>, <<>>, <<>>) :
        t \in RowTypeNames, n \in BOOLEAN}

RowListDescs ==
    {Desc("dict", <<S("c")>>, <<S("varchar")>>, <<PyBool(FALSE)>>, <<>>, <<>>),
     Desc("dict", <<S("c")>>, <<Str(1, FALSE, "varchar")>>, <<PyBool(FALSE)>>, <<>>, <<>>),
     Desc("dict", <<S("c")>>, <<Str(1, FALSE, "varchar")>>, <<PyBool(TRUE)>>, <<>>, <<>>)}

json_1 == DictOf("dict", <<"key1">>, [key1 |-> S("val1")])
json_2 ==
    DictOf("dict", <<"key2", "key3", "key4">>,
           [key2 |-> S("val2"),
            key3 |-> List(<<PyInt(1), PyInt(2)>>),
            key4 |-> DictOf("dict", <<"key5">>, [key5 |-> S("val5")])])

Scalars == {PyBool(TRUE), PyBool(FALSE), PyInt(3), PyFloat("2.5"), S("example-01")}

Dates == {Date(1970, 1, 1), Date(1970, 1, 2), Date(1969, 12, 31), Date(2000, 3, 1),
          Date(2020, 2, 29)}

Datetimes ==
    {Datetime(1970, 1, 1, 0, 0, 0, 0), Datetime(1970, 1, 1, 0, 0, 1, 0),
     Datetime(1970, 1, 1, 0, 0, 1, 1000), Datetime(1970, 1, 1, 0, 0, 59, 999999),
     Datetime(1970, 1, 2, 12, 50, 30, 447000), Datetime(1970, 1, 20, 23, 59, 59, 500000)}

Timedeltas == {Timedelta(0, 3661, 0), Timedelta(1, 0, 5)}

Dicts ==
    {json_1, json_2, DictOf("dict", <<>>, <<>>),
     DictOf("dict", <<"d">>, [d |-> Date(2020, 2, 29)])}

DateRanges ==
    {DateRange(lo, hi) : lo, hi \in {PyNone, Date(1970, 1, 2), Date(2020, 2, 29)}}

NumericRanges == {NumericRange(lo, hi) : lo \in {PyNone, PyInt(1)}, hi \in {PyNone, PyInt(10)}}

Lists ==
    {List(<<>>), List(<<S("list"), S("of"), S("strings")>>),
     List(<<PyInt(1), PyNone, PyInt(2)>>)}

RowValues ==
    {PyNone} \cup Scalars \cup Dates \cup Datetimes \cup Timedeltas \cup Dicts
        \cup DateRanges \cup NumericRanges \cup Lists

\* Values of the rows of longer schemas.
RowListValues == {PyNone, S("example-01"), List(<<S("list"), S("of"), S("strings")>>)}

RowShapes == {"object", "dict", "OrderedDict", "tuple", "list"}

\* The row that carries vals[i] for the field names[i], in the given shape.
ByName(names, vals) ==
    [k \in Range(names) |-> vals[CHOOSE i \in DOMAIN names : names[i] = k]]

BuildRow(shape, names, vals) ==
    CASE shape = "object" -> Object("Row", 1, ByName(names, vals))
      [] shape = "dict" -> DictOf("dict", names, ByName(names, vals))
      [] shape = "OrderedDict" -> DictOf("OrderedDict", names, ByName(names, vals))
      [] shape = "tuple" -> Tuple(vals)
      [] shape = "list" -> List(vals)

\* mapping_overrides: field name -> {pg_type, python_type}
Override(pg_type, python_type) ==
    Dict([pg_type |-> pg_type, python_type |-> PyType(python_type)])

Overrides ==
    {Dict([c1 |-> Override(S("string"), "str")]),
     Dict([c1 |-> Override(S("numeric"), "float")]),
     Dict([c1 |-> Override(Str(1, FALSE, "string"), "list")]),
     Dict([c1 |-> Override(S("float8"), "float"),
           not_matching_override_name |-> Override(S("int"), "int")]),
     Dict([c2 |-> Override(S("string"), "str")])}

\* --------------------------------------------- state machine of rows
RowInit ==
    /\ \/ \E d \in RowColumnDescs : columns = BuildAll(<<d>>)
       \/ \E n \in 2..MaxCols : \E ds \in [1..n -> RowListDescs] :
              columns = BuildAll(Named(ds))
    /\ column_mapping = PyNone
    /\ called = [op |-> "none"]
    /\ returned = Ok(PyNone)
    /\ ncalls = 0

ReturnedWithOverrides(table_name, namespace, overrides, call) ==
    /\ called' = [op |-> "get_avro_schema",
                  table_name |-> table_name,
                  namespace |-> namespace,
                  columns |-> columns,
                  column_mapping |-> PyNone,
                  mapping_overrides |-> overrides]
    /\ returned' = call.res
    /\ columns' = call.columns

\* get_avro_schema(table_name, namespace, columns, mapping_overrides=overrides)
CallGetAvroSchemaOverrides ==
    /\ ncalls < MaxCalls
    /\ \E table_name \in TableNames, namespace \in Namespaces, overrides \in Overrides :
          ReturnedWithOverrides(S(table_name), S(namespace), overrides,
                                get_avro_schema_kwargs(S(table_name), S(namespace), columns,
                                                       [mapping_overrides |-> overrides]))
    /\ ncalls' = ncalls + 1
    /\ UNCHANGED column_mapping

\* The caller holds a schema once get_avro_schema has returned one; each
\* row is converted on its own, so one get_avro_row_dict call per schema
\* shows all there is to see.
HasSchema == called.op = "get_avro_schema" /\ returned.ok

FieldNames(schema) ==
    [i \in DOMAIN schema.items.fields.elems |->
        text_of(schema.items.fields.elems[i].items.name)]

RowsFor(schema, shapes) ==
    {BuildRow(shape, FieldNames(schema), vals) :
        shape \in shapes,
        vals \in [DOMAIN FieldNames(schema) ->
                     IF Len(FieldNames(schema)) = 1 THEN RowValues ELSE RowListValues]}

RowReturned(args, call) ==
    /\ called' = [op |-> "get_avro_row_dict", args |-> args]
    /\ returned' = call

\* get_avro_row_dict(row, schema)
CallGetAvroRowDict ==
    /\ HasSchema
    /\ \E row \in RowsFor(returned.val, RowShapes) :
          RowReturned(<<row, returned.val>>, get_avro_row_dict_args(<<row, returned.val>>))
    /\ UNCHANGED <<columns, column_mapping, ncalls>>

\* get_avro_row_dict(row, schema, overrides)
CallGetAvroRowDictOverrides ==
    /\ HasSchema
    /\ \E row \in RowsFor(returned.val, {"dict"}), overrides \in Overrides :
          RowReturned(<<row, returned.val, overrides>>,
                      get_avro_row_dict_args(<<row, returned.val, overrides>>))
    /\ UNCHANGED <<columns, column_mapping, ncalls>>

RowNext ==
    \/ CallGetAvroSchema
    \/ CallGetAvroSchemaOverrides
    \/ CallGetAvroRowDict
    \/ CallGetAvroRowDictOverrides

RowSpec == RowInit /\ [][RowNext]_vars

\* --------------------------------------------------------------- C11
OverridesCall == SchemaCall /\ "mapping_overrides" \in DOMAIN called

HasEntry(overrides, name) == text_of(name) \in DOMAIN overrides.items

EntryOf(overrides, name) == overrides.items[text_of(name)].items

\* The column as a column of the entry's pg_type.
Overridden(col, overrides) ==
    IF HasEntry(overrides, col.items.name)
    THEN [col EXCEPT !.items.type = EntryOf(overrides, col.items.name).pg_type]
    ELSE col

\* The type a column is to be declared with: a numeric column (the entry
\* gives no precision or scale) a decimal of precision 38 and scale 9.
TypeOfOverridden(col) ==
    IF col.items.type = S("numeric")
    THEN IF Truthy(col.items.nullable)
         THEN List(<<S("null"), Decimal(PyInt(38), PyInt(9))>>)
         ELSE Decimal(PyInt(38), PyInt(9))
    ELSE TypeAlone(col, PyNone)

\* C11: get_avro_schema called with mapping_overrides returns a schema
\* with one field per column, in order; a column whose name has an entry is
\* declared with the type a column of the entry's pg_type gets (with the
\* column's own nullability), a column without entry as without overrides;
\* an entry that names no column adds no field.
C11_OverridesRemapDeclaredType ==
    OverridesCall =>
        /\ returned.ok
        /\ Len(Fields) = Len(Passed)
        /\ \A i \in 1..Len(Passed) :
              /\ Fields[i].items.name = Passed[i].items.name
              /\ DeclaredType(i) =
                    TypeOfOverridden(Overridden(Passed[i], called.mapping_overrides))

\* --------------------------------------------------------------- C12
RowCall == called.op = "get_avro_row_dict"

RowOverridesCall == RowCall /\ Len(called.args) = 3

\* python_type(v), for the pairs whose result is told here: str(1) = "1",
\* str("a") = "a", float(2.5) = 2.5, int(3) = 3, list([...]) = [...].
Appliable(python_type, v) ==
    \/ python_type.name = "str" /\ v.tag \in {"int", "str"}
    \/ python_type.name = "float" /\ v.tag = "float"
    \/ python_type.name = "int" /\ v.tag = "int"
    \/ python_type.name = "list" /\ v.tag = "list"

Applied(python_type, v) ==
    IF python_type.name = "str" /\ v.tag = "int" THEN S(ToString(v.i)) ELSE v

\* The value the claim gives the field k of an output row.
OverriddenValue(row, schema, overrides, k) ==
    IF row.items[k] = PyNone THEN PyNone
    ELSE IF k \in DOMAIN overrides.items
    THEN Applied(overrides.items[k].items.python_type, row.items[k])
    ELSE get_avro_row_dict(row, schema).val.items[k]

\* C12: get_avro_row_dict called with the overrides as third argument
\* returns a row in which a field with an entry holds the entry's
\* python_type applied to the row value, a None row value stays None, and
\* a field without entry holds the value it gets without overrides.
C12_OverridesCoerceValues ==
    (/\ RowOverridesCall
     /\ get_avro_row_dict(called.args[1], called.args[2]).ok
     /\ \A k \in DOMAIN called.args[1].items :
           k \in DOMAIN called.args[3].items =>
               \/ called.args[1].items[k] = PyNone
               \/ Appliable(called.args[3].items[k].items.python_type,
                            called.args[1].items[k]))
    => /\ returned.ok
       /\ \A k \in DOMAIN called.args[1].items :
             returned.val.items[k] =
                 OverriddenValue(called.args[1], called.args[2], called.args[3], k)

\* --------------------------------------------------------------- C13
PlainRowCall == RowCall /\ Len(called.args) = 2

Row == called.args[1]

Schema == called.args[2]

SchemaFields == Schema.items.fields.elems

\* The value the row carries for the i-th field of the schema.
Carries(row, names) ==
    CASE row.tag \in {"tuple", "list"} -> row.elems
      [] row.tag = "dict" -> [i \in DOMAIN names |-> row.items[names[i]]]
      [] row.tag = "object" -> [i \in DOMAIN names |-> row.attrs[names[i]]]

RowValue(i) == Carries(Row, FieldNames(Schema))[i]

\* A dict a json column can hold.
JsonValue(v) == v.tag = "dict" => serializable(v)

JsonValues == \A i \in DOMAIN SchemaFields : JsonValue(RowValue(i))

\* C13: for a row that carries one value per schema field,
\* get_avro_row_dict returns a dictionary whose keys are exactly the
\* schema's field names, and returns the same for the same values carried
\* by an object, a dict, a dict subclass, a tuple or a list.
C13_SameRowDictForEveryRowShape ==
    (PlainRowCall /\ JsonValues) =>
        /\ returned.ok
        /\ DOMAIN returned.val.items = Range(FieldNames(Schema))
        /\ \A shape \in RowShapes :
              get_avro_row_dict(BuildRow(shape, FieldNames(Schema),
                                         Carries(Row, FieldNames(Schema))),
                                Schema) = returned

\* --------------------------------------------------------------- C14
\* Days from 1970-01-01 to the dates the rows carry, from the calendar.
ExpectedDays(d) ==
    CASE d = Date(1970, 1, 1) -> 0
      [] d = Date(1970, 1, 2) -> 1
      [] d = Date(1969, 12, 31) -> -1
      [] d = Date(2000, 3, 1) -> 11017
      [] d = Date(2020, 2, 29) -> 18321

\* Whole milliseconds from the epoch to a datetime of January 1970.
ExpectedMillis(v) ==
    ((((v.day - 1) * 24 + v.hour) * 60 + v.minute) * 60 + v.second) * 1000
        + v.microsecond \div 1000

Encoded(i) == returned.val.items[FieldNames(Schema)[i]]

\* C14: a date is encoded as the number of days from 1970-01-01 to it, a
\* datetime as the number of whole milliseconds since the epoch, a dict as
\* its JSON string; booleans, numbers and strings are kept as they are.
C14_DatesDatetimesAndDicts ==
    (PlainRowCall /\ returned.ok) =>
        \A i \in DOMAIN SchemaFields :
            /\ RowValue(i).tag = "date" => Encoded(i) = PyInt(ExpectedDays(RowValue(i)))
            /\ RowValue(i).tag = "datetime" =>
                   Encoded(i) = PyInt(ExpectedMillis(RowValue(i)))
            /\ RowValue(i).tag = "dict" => Encoded(i) = S(json_text(RowValue(i)))
            /\ RowValue(i) \in Scalars => Encoded(i) = RowValue(i)

\* --------------------------------------------------------------- C15
DaysOrNone(bound) == IF bound = PyNone THEN PyNone ELSE PyInt(ExpectedDays(bound))

\* C15: a numeric range is encoded as [lower, upper] and a date range as
\* [days to lower, days to upper], also when a bound is absent or the
\* range is empty.
C15_RangesAsTwoElementLists ==
    (PlainRowCall /\ Len(SchemaFields) = 1
        /\ RowValue(1).tag \in {"NumericRange", "DateRange"}) =>
        /\ returned.ok
        /\ RowValue(1).tag = "NumericRange" =>
               Encoded(1) = List(<<RowValue(1).lower, RowValue(1).upper>>)
        /\ RowValue(1).tag = "DateRange" =>
               Encoded(1) = List(<<DaysOrNone(RowValue(1).lower),
                                   DaysOrNone(RowValue(1).upper)>>)

\* --------------------------------------------------------------- C16
IsArrayType(t) ==
    \/ t = S("array")
    \/ t.tag = "dict" /\ t.items.type = S("array")

NonNullableArray(i) == IsArrayType(SchemaFields[i].items.type)

NullableArray(i) ==
    /\ SchemaFields[i].items.type.tag = "list"
    /\ IsArrayType(SchemaFields[i].items.type.elems[2])

\* C16: for a field declared as an array that is not nullable a None row
\* value is encoded as []; for a field declared as a nullable array None
\* stays None and [] stays [].
C16_NoneOfArrayField ==
    (PlainRowCall /\ returned.ok) =>
        \A i \in DOMAIN SchemaFields :
            /\ (NonNullableArray(i) /\ RowValue(i) = PyNone) => Encoded(i) = List(<<>>)
            /\ (NullableArray(i) /\ RowValue(i) = PyNone) => Encoded(i) = PyNone
            /\ (NullableArray(i) /\ RowValue(i) = List(<<>>)) => Encoded(i) = List(<<>>)

\* --------------------------------------------------------------- C17
\* What the same call returns when it is made again on the caller's
\* columns as they are now.
CalledAgain ==
    get_avro_schema(called.table_name, called.namespace, columns,
                    called.column_mapping).res

\* C17: a get_avro_schema call leaves the caller's column descriptions as
\* they were passed, so that the same call made again on the same column
\* objects returns an equal schema.
C17_RepeatedCallsReturnEqualSchemas ==
    SchemaCall =>
        /\ columns = Passed
        /\ returned.ok => CalledAgain = returned

\* --------------------------------------------------------------- C18
IsDecimal(t) ==
    "logicalType" \in DOMAIN t.items /\ t.items.logicalType = S("decimal")

\* The type objects of a declared type: the declared type without the
\* nullable union, and the item type of an array.
TypeObjects(t) == {o \in {NonNull(t), Item(t)} : o.tag = "dict"}

\* C18: in a returned schema a type object with logicalType decimal has
\* the keys precision and scale, and a type object without it has neither;
\* for "_numeric" they are on the item type, not on the array type.
C18_PrecisionAndScaleOnDecimalOnly ==
    SchemaReturned =>
        \A i \in DOMAIN Fields : \A t \in TypeObjects(DeclaredType(i)) :
            IF IsDecimal(t)
            THEN {"precision", "scale"} \subseteq DOMAIN t.items
            ELSE {"precision", "scale"} \cap DOMAIN t.items = {}

====
